---- MODULE Spec2Model ----
(***************************************************************************)
(* The V-Net graph builder get_model of halonet/net/model.py as a state    *)
(* machine.  One run of the machine is one call of get_model: the state is *)
(* the call's arguments, its local variables and the computation graph     *)
(* built so far (the layers created, in creation order, each with the      *)
(* source line that created it, its input tensors and its output shape).   *)
(* A tensor handle is the index of the layer that produced it.             *)
(***************************************************************************)
EXTENDS Integers, Sequences, FiniteSets, TLC

\* ------------------------------------------------------------------ bounds
MaxLevels == 3
MaxNfm == 2
MaxConv == 3
MaxDim == 8
MaxBoxDim == 4

\* the rates and the slope tried for dropout_in, dropout_out, lrelu_alpha
\* (0 stands for Python's False / 0.0, which "if dropout:" treats alike;
\* <<>> stands for None)
DropoutInRates == {0, 25}
DropoutOutRates == {0, 50}
Alphas == {<<>>, <<5>>}

\* the input channel counts tried: 1 (the training script's), counts equal
\* to an nfm tried, and counts that are neither 1 nor nfm
Chans == {1, 2, 3}

\* ------------------------------------------------------- program constants
conv_kernel_size == 5
updown_kernel_size == 2
updown_stride == updown_kernel_size

VARIABLES
    nlevels, nfm, input_shape, nconv, dropout_in, dropout_out, lrelu_alpha,
    batch_norm,     \* the arguments of get_model
    rejectEmpty,    \* whether the tensor framework refuses a convolution
                    \* whose input is smaller than its kernel (it matters
                    \* only to inputs smaller than 2^nlevels)
    layers,         \* the graph: the layers created so far
    input_state, forward_list, fi, ci, x, residual, shortcut, model,
    pc, error

args == <<nlevels, nfm, input_shape, nconv, dropout_in, dropout_out,
          lrelu_alpha, batch_norm, rejectEmpty>>
locals == <<input_state, forward_list, fi, ci, x, residual, shortcut, model>>
vars == <<args, layers, locals, pc, error>>

\* ------------------------------------------------------------- the layers
Layer(op, site, lvl, inp, shape, arg) ==
    [op |-> op, site |-> site, lvl |-> lvl, inp |-> inp, shape |-> shape,
     arg |-> arg]

RECURSIVE Pow2(_)
Pow2(n) == IF n <= 0 THEN 1 ELSE 2 * Pow2(n - 1)

\* kl.Input(shape = input_shape)
Input(ls) ==
    Append(ls, Layer("Input", 63, -1, <<>>, input_shape, <<>>))

\* kl.Conv3D(filters, kernel_size = k, padding = 'same') and the final
\* kl.Conv3D(2, kernel_size = (1, 1, 1)): stride 1, spatial size kept
Conv3D(ls, t, filters, k, site, lvl) ==
    LET s == ls[t].shape
    IN  Append(ls, Layer("Conv3D", site, lvl, <<t>>,
                         <<s[1], s[2], s[3], filters>>, <<k, 1>>))

\* mutant: the stride left out of the output length
ConvOutputLengthNoStride(d, k, st) == d - k + 1

\* output length of an unpadded convolution of kernel k and stride st
ConvOutputLength(d, k, st) == (d - k + st) \div st

\* output length of an unpadded transposed convolution
DeconvLength(d, k, st) == d * st + (IF k > st THEN k - st ELSE 0)

\* the framework's check of a strided convolution's input
DownOK(ls, t) ==
    LET s == ls[t].shape
    IN  rejectEmpty => \A i \in 1..3 : s[i] >= updown_kernel_size

\* kl.Conv3D(filters, kernel_size = updown_kernel_size, strides = updown_stride)
DownConv(ls, t, filters, site, lvl) ==
    LET s == ls[t].shape
        o(d) == ConvOutputLength(d, updown_kernel_size, updown_stride)
    IN  Append(ls, Layer("Conv3D", site, lvl, <<t>>,
                         <<o(s[1]), o(s[2]), o(s[3]), filters>>,
                         <<updown_kernel_size, updown_stride>>))

\* kl.Conv3DTranspose(filters, kernel_size = updown_kernel_size, strides = updown_stride)
UpConv(ls, t, filters, site, lvl) ==
    LET s == ls[t].shape
        o(d) == DeconvLength(d, updown_kernel_size, updown_stride)
    IN  Append(ls, Layer("Conv3DTranspose", site, lvl, <<t>>,
                         <<o(s[1]), o(s[2]), o(s[3]), filters>>,
                         <<updown_kernel_size, updown_stride>>))

\* add([a, b]): the merge layer accepts operands whose sizes agree on every
\* axis or are 1 on one side, and broadcasts the axis of size 1
AddOK(ls, a, b) ==
    LET s == ls[a].shape
        u == ls[b].shape
    IN  \A i \in 1..4 : s[i] = u[i] \/ s[i] = 1 \/ u[i] = 1

BroadcastDim(i, j) == IF i = 1 THEN j ELSE i

Add(ls, a, b, site, lvl) ==
    LET s == ls[a].shape
        u == ls[b].shape
    IN  Append(ls, Layer("Add", site, lvl, <<a, b>>,
                         <<BroadcastDim(s[1], u[1]), BroadcastDim(s[2], u[2]),
                           BroadcastDim(s[3], u[3]), BroadcastDim(s[4], u[4])>>,
                         <<>>))

\* kl.Concatenate(axis=-1)([a, b]): every axis but the last must agree
ConcatOK(ls, a, b) ==
    \A i \in 1..3 : ls[a].shape[i] = ls[b].shape[i]

Concatenate(ls, a, b, site, lvl) ==
    LET s == ls[a].shape
        u == ls[b].shape
    IN  Append(ls, Layer("Concatenate", site, lvl, <<a, b>>,
                         <<s[1], s[2], s[3], s[4] + u[4]>>, <<>>))

\* NonLinearity(t, lrelu=lrelu_alpha, dropout=False, batch_norm=batch_norm)
NonLinearity(ls, t, site, lvl, dropout, bn) ==
    LET s == ls[t].shape
        l1 == IF bn
              THEN Append(ls, Layer("BatchNormalization", site, lvl, <<t>>, s, <<>>))
              ELSE ls
        t1 == IF bn THEN Len(l1) ELSE t
        l2 == IF lrelu_alpha # <<>>
              THEN Append(l1, Layer("LeakyReLU", site, lvl, <<t1>>, s, lrelu_alpha))
              ELSE Append(l1, Layer("PReLU", site, lvl, <<t1>>, s, <<>>))
        t2 == Len(l2)
    IN  IF dropout # 0
        THEN Append(l2, Layer("Dropout", site, lvl, <<t2>>, s, <<dropout>>))
        ELSE l2

\* kl.Activation('softmax')
Softmax(ls, t, site, lvl) ==
    Append(ls, Layer("Activation_softmax", site, lvl, <<t>>, ls[t].shape, <<>>))

\* ------------------------------------------------------ the configurations
Dims == 1..MaxDim
BoxDims == 1..MaxBoxDim

\* cubic inputs, every flag free
CubicConfigs ==
    /\ \E S \in Dims, C \in Chans : input_shape = <<S, S, S, C>>
    /\ nconv \in 0..MaxConv
    /\ dropout_in \in DropoutInRates
    /\ dropout_out \in DropoutOutRates
    /\ lrelu_alpha \in Alphas
    /\ batch_norm \in BOOLEAN

\* inputs of any shape, under the flags of the training script
BoxConfigs ==
    /\ \E X \in BoxDims, Y \in BoxDims, Z \in BoxDims, C \in Chans :
          input_shape = <<X, Y, Z, C>>
    /\ nconv = 3
    /\ dropout_in = 0
    /\ dropout_out = 50
    /\ lrelu_alpha = <<5>>
    /\ batch_norm = TRUE

Init ==
    /\ nlevels \in 0..MaxLevels
    /\ nfm \in 1..MaxNfm
    /\ CubicConfigs \/ BoxConfigs
    /\ rejectEmpty \in
          IF \E i \in 1..3 : input_shape[i] < Pow2(nlevels)
          THEN BOOLEAN ELSE {TRUE}
    /\ layers = <<>>
    /\ input_state = 0
    /\ forward_list = <<>>
    /\ fi = -1
    /\ ci = -1
    /\ x = 0
    /\ residual = 0
    /\ shortcut = 0
    /\ model = <<>>
    /\ pc = "start"
    /\ error = ""

\* ----------------------------------------------------------------- helpers
Abs(n) == IF n < 0 THEN -n ELSE n

\* mutant: the comparison made inclusive, true at every level
DropoutConditionInclusive(f) == Abs(f - nlevels) <= nlevels

\* "if abs(fi - nlevels) < nlevels" of both transitions
DropoutCondition(f) == Abs(f - nlevels) < nlevels

\* the dropout argument the transition of level f passes to NonLinearity
TransitionDropout(f) == IF DropoutCondition(f) THEN dropout_out ELSE 0

\* the batch_norm argument a transition's NonLinearity call runs with: the
\* call names none, so the parameter's default, get_model's batch_norm
TransitionBatchNorm == batch_norm

\* mutant: batch norm on the first additional convolution, not the last
MoreBatchNormFirst(c) == (c = 0) /\ batch_norm

\* "batch_norm=(ci==nconv-2) and batch_norm" of the additional convolutions
MoreBatchNorm(c) == (c = nconv - 2) /\ batch_norm

\* mutant: the decoder's residual block built with the level's own width
DecFiltersHalved(f) == nfm * Pow2(f)

\* the feature maps of the levels: "nfm*2**fi" of the encoder's residual block
\* and of the transposed convolution, "nfm*2**(fi+1)" of the down convolution
\* and of the decoder's residual block
EncFilters(f) == nfm * Pow2(f)
DownFilters(f) == nfm * Pow2(f + 1)
DecFilters(f) == nfm * Pow2(f + 1)
UpFilters(f) == nfm * Pow2(f)

\* "if fi != (nlevels-1)": the decoder level takes a forwarded tensor
HasSkip(f) == f # nlevels - 1

\* forward_list[k], Python's index
FL(k) == forward_list[k + 1]

Fail(e) ==
    /\ pc' = "failed"
    /\ error' = e
    /\ UNCHANGED <<layers, locals>>

\* ------------------------------------------------------------- the actions
\* lines 63-89: the input placeholder, the empty buffer, the first loop head
Start ==
    /\ pc = "start"
    /\ layers' = Input(layers)
    /\ input_state' = Len(layers')
    /\ forward_list' = <<>>
    /\ IF nlevels > 0
       THEN pc' = "enc" /\ fi' = 0
       ELSE pc' = "fusion" /\ fi' = fi
    /\ UNCHANGED <<args, ci, x, residual, shortcut, model, error>>

\* lines 92-101: the shortcut and the first convolution of an encoder level
EncFirstLayers(ls) ==
    IF fi = 0
    THEN LET l1 == Conv3D(ls, input_state, nfm, conv_kernel_size, 94, fi)
         IN  NonLinearity(l1, Len(l1), 95, fi, 0, FALSE)
    ELSE LET l1 == Conv3D(ls, x, EncFilters(fi), conv_kernel_size, 100, fi)
         IN  NonLinearity(l1, Len(l1), 101, fi, dropout_in, FALSE)

EncFirst ==
    /\ pc = "enc"
    /\ shortcut' = IF fi = 0 THEN input_state ELSE x
    /\ layers' = EncFirstLayers(layers)
    /\ residual' = Len(layers')
    /\ IF fi # 0 /\ nconv - 1 > 0
       THEN pc' = "enc_more" /\ ci' = 0
       ELSE pc' = "enc_add" /\ ci' = ci
    /\ UNCHANGED <<args, input_state, forward_list, fi, x, model, error>>

\* lines 102-105: one more convolution of the encoder's residual block
EncMoreLayers(ls) ==
    LET l1 == Conv3D(ls, residual, EncFilters(fi), conv_kernel_size, 103, fi)
    IN  NonLinearity(l1, Len(l1), 104, fi, dropout_in, MoreBatchNorm(ci))

EncMore ==
    /\ pc = "enc_more"
    /\ layers' = EncMoreLayers(layers)
    /\ residual' = Len(layers')
    /\ IF ci + 1 < nconv - 1
       THEN pc' = "enc_more" /\ ci' = ci + 1
       ELSE pc' = "enc_add" /\ ci' = ci
    /\ UNCHANGED <<args, input_state, forward_list, fi, x, shortcut, model, error>>

\* lines 108-111: the sum with the shortcut, saved in the buffer
EncAdd ==
    /\ pc = "enc_add"
    /\ IF AddOK(layers, residual, shortcut)
       THEN /\ layers' = Add(layers, residual, shortcut, 108, fi)
            /\ x' = Len(layers')
            /\ forward_list' = Append(forward_list, x')
            /\ pc' = "enc_down"
            /\ UNCHANGED <<input_state, fi, ci, residual, shortcut, model, error>>
       ELSE Fail("add@108")
    /\ UNCHANGED args

\* lines 114-118, 89, 123: the down convolution and the next loop head
EncDownLayers(ls) ==
    LET l1 == DownConv(ls, x, DownFilters(fi), 114, fi)
    IN  NonLinearity(l1, Len(l1), IF DropoutCondition(fi) THEN 116 ELSE 118,
                     fi, TransitionDropout(fi), TransitionBatchNorm)

EncDown ==
    /\ pc = "enc_down"
    /\ IF DownOK(layers, x)
       THEN /\ layers' = EncDownLayers(layers)
            /\ x' = Len(layers')
            /\ IF fi + 1 < nlevels
               THEN pc' = "enc" /\ fi' = fi + 1
               ELSE pc' = "dec" /\ fi' = nlevels - 1
            /\ UNCHANGED <<input_state, forward_list, ci, residual, shortcut,
                           model, error>>
       ELSE Fail("Conv3D@114")
    /\ UNCHANGED args

\* mutant: the shortcut taken after the concatenation
DecShortcutAfterConcat ==
    IF fi # nlevels - 1 THEN Len(layers) + 1 ELSE x

\* lines 127-135: the shortcut, the skip concatenation and the first
\* convolution of a decoder level; line 127, "shortcut = x"
DecShortcut == x

\* mutant: the skip connection reads the buffer entry of the level itself
DecConcatLayersSameLevel(ls) ==
    IF fi # nlevels - 1
    THEN Concatenate(ls, forward_list[fi + 1], x, 131, fi)
    ELSE ls

DecConcatLayers(ls) ==
    IF HasSkip(fi)
    THEN Concatenate(ls, FL(fi + 1), x, 131, fi)
    ELSE ls

DecFirstLayers(ls) ==
    LET l0 == DecConcatLayers(ls)
        t0 == IF HasSkip(fi) THEN Len(l0) ELSE x
        l1 == Conv3D(l0, t0, DecFilters(fi), conv_kernel_size, 134, fi)
    IN  NonLinearity(l1, Len(l1), 135, fi, dropout_in, FALSE)

DecFirst ==
    /\ pc = "dec"
    /\ IF HasSkip(fi) /\ ~ConcatOK(layers, FL(fi + 1), x)
       THEN Fail("Concatenate@131")
       ELSE /\ shortcut' = DecShortcut
            /\ layers' = DecFirstLayers(layers)
            /\ x' = IF HasSkip(fi) THEN Len(DecConcatLayers(layers)) ELSE x
            /\ residual' = Len(layers')
            /\ IF nconv - 1 > 0
               THEN pc' = "dec_more" /\ ci' = 0
               ELSE pc' = "dec_add" /\ ci' = ci
            /\ UNCHANGED <<input_state, forward_list, fi, model, error>>
    /\ UNCHANGED args

\* lines 136-139: one more convolution of the decoder's residual block
DecMoreLayers(ls) ==
    LET l1 == Conv3D(ls, residual, DecFilters(fi), conv_kernel_size, 137, fi)
    IN  NonLinearity(l1, Len(l1), 138, fi, dropout_in, MoreBatchNorm(ci))

DecMore ==
    /\ pc = "dec_more"
    /\ layers' = DecMoreLayers(layers)
    /\ residual' = Len(layers')
    /\ IF ci + 1 < nconv - 1
       THEN pc' = "dec_more" /\ ci' = ci + 1
       ELSE pc' = "dec_add" /\ ci' = ci
    /\ UNCHANGED <<args, input_state, forward_list, fi, x, shortcut, model, error>>

\* line 140: the sum with the shortcut
DecAdd ==
    /\ pc = "dec_add"
    /\ IF AddOK(layers, residual, shortcut)
       THEN /\ layers' = Add(layers, residual, shortcut, 140, fi)
            /\ x' = Len(layers')
            /\ pc' = "dec_up"
            /\ UNCHANGED <<input_state, forward_list, fi, ci, residual, shortcut,
                           model, error>>
       ELSE Fail("add@140")
    /\ UNCHANGED args

\* lines 143-147, 123: the transposed convolution and the next loop head
DecUpLayers(ls) ==
    LET l1 == UpConv(ls, x, UpFilters(fi), 143, fi)
    IN  NonLinearity(l1, Len(l1), IF DropoutCondition(fi) THEN 145 ELSE 147,
                     fi, TransitionDropout(fi), TransitionBatchNorm)

DecUp ==
    /\ pc = "dec_up"
    /\ layers' = DecUpLayers(layers)
    /\ x' = Len(layers')
    /\ IF fi > 0
       THEN pc' = "dec" /\ fi' = fi - 1
       ELSE pc' = "fusion" /\ fi' = fi
    /\ UNCHANGED <<args, input_state, forward_list, ci, residual, shortcut,
                   model, error>>

\* mutant: a nonlinearity block on the residual branch
FusionResidualActivated(ls, t) ==
    LET l1 == Conv3D(ls, t, nfm, conv_kernel_size, 152, fi)
    IN  NonLinearity(l1, Len(l1), 152, fi, 0, FALSE)

\* lines 151-155: the fusion stage; line 152, its residual branch
FusionResidual(ls, t) == Conv3D(ls, t, nfm, conv_kernel_size, 152, fi)

FusionLayers(ls) ==
    LET l0 == Concatenate(ls, FL(0), x, 151, fi)
        t0 == Len(l0)
        l1 == FusionResidual(l0, t0)
        r1 == Len(l1)
        l2 == Conv3D(l1, t0, nfm, 1, 153, fi)
        l3 == Add(l2, r1, Len(l2), 154, fi)
    IN  NonLinearity(l3, Len(l3), 155, fi, 0, FALSE)

Fusion ==
    /\ pc = "fusion"
    /\ IF Len(forward_list) = 0
       THEN Fail("IndexError@151")
       ELSE IF ~ConcatOK(layers, FL(0), x)
       THEN Fail("Concatenate@151")
       ELSE /\ layers' = FusionLayers(layers)
            /\ x' = Len(layers')
            /\ residual' = Len(layers) + 2
            /\ shortcut' = Len(layers) + 3
            /\ pc' = "head"
            /\ UNCHANGED <<input_state, forward_list, fi, ci, model, error>>
    /\ UNCHANGED args

\* mutant: a single output channel
HeadLayersOneChannel(ls) ==
    LET l1 == Conv3D(ls, x, 1, 1, 159, fi)
        l2 == NonLinearity(l1, Len(l1), 160, fi, 0, FALSE)
    IN  Softmax(l2, Len(l2), 163, fi)

\* lines 159-163: the classification head
HeadLayers(ls) ==
    LET l1 == Conv3D(ls, x, 2, 1, 159, fi)
        l2 == NonLinearity(l1, Len(l1), 160, fi, 0, FALSE)
    IN  Softmax(l2, Len(l2), 163, fi)

HeadStage ==
    /\ pc = "head"
    /\ layers' = HeadLayers(layers)
    /\ x' = Len(layers')
    /\ pc' = "model"
    /\ UNCHANGED <<args, input_state, forward_list, fi, ci, residual, shortcut,
                   model, error>>

\* lines 165-167: km.Model(inputs = input_state, outputs = x), returned
Return ==
    /\ pc = "model"
    /\ model' = <<input_state, x>>
    /\ pc' = "done"
    /\ UNCHANGED <<args, layers, input_state, forward_list, fi, ci, x, residual,
                   shortcut, error>>

Next ==
    \/ Start
    \/ EncFirst
    \/ EncMore
    \/ EncAdd
    \/ EncDown
    \/ DecFirst
    \/ DecMore
    \/ DecAdd
    \/ DecUp
    \/ Fusion
    \/ HeadStage
    \/ Return

Spec == Init /\ [][Next]_vars

\* ------------------------------------------------------- reading the graph
Ids == 1..Len(layers)
AtSite(sites) == {i \in Ids : layers[i].site \in sites}
OfOp(o) == {i \in Ids : layers[i].op = o}
IsActivation(i) == layers[i].op \in {"LeakyReLU", "PReLU"}
InShape(i, k) == layers[layers[i].inp[k]].shape

InDecoderLoop == pc \in {"dec", "dec_more", "dec_add", "dec_up"}
AfterEncoderLoop == InDecoderLoop \/ pc \in {"fusion", "head", "model", "done"}
AfterFusion == pc \in {"head", "model", "done"}

\* the concatenations, each the one read of a buffer entry (its first operand)
Reads == OfOp("Concatenate")
ReadsUpTo(i) == Cardinality({j \in Reads : j <= i})

\* the configurations the specification calls valid, with spatial sizes that
\* the levels can halve
Divisible == \A i \in 1..3 : input_shape[i] % Pow2(nlevels) = 0
ValidConfig == nlevels >= 1 /\ nfm > 0 /\ nconv >= 1 /\ Divisible

\* ---------------------------------------------------------------------- C1
\* the writes of the buffer
BufferWrittenAscending ==
    /\ Len(forward_list) <= nlevels
    /\ \A k \in 0..(Len(forward_list) - 1) :
          /\ layers[FL(k)].site = 108
          /\ layers[FL(k)].lvl = k
          /\ k > 0 => FL(k - 1) < FL(k)
    /\ AfterEncoderLoop => Len(forward_list) = nlevels

BufferReadDescending ==
    /\ \A i \in Reads :
          LET k == nlevels - ReadsUpTo(i)
          IN  /\ k \in 0..(Len(forward_list) - 1)
              /\ layers[i].inp[1] = FL(k)
              /\ layers[i].site = IF k = 0 THEN 151 ELSE 131
    /\ InDecoderLoop => \A i \in Reads : layers[i].inp[1] # FL(0)
    /\ pc = "done" => Cardinality(Reads) = nlevels

BufferNeverOverwritten ==
    \A k \in 1..Len(forward_list) :
        Len(forward_list') >= k /\ forward_list'[k] = forward_list[k]

\* C1: the forward-feature buffer is written in ascending index order, entry
\* k by encoder level k, and holds exactly nlevels entries once the encoder
\* loop has ended; an entry never changes after it is written; the entries
\* are read (concatenated) once each, in strictly descending index order
\* starting at nlevels-1, the entries of index above 0 inside the decoder
\* loop (line 131) and entry 0 last, at the fusion stage (line 151).
C1_ForwardBuffer ==
    /\ [](BufferWrittenAscending /\ BufferReadDescending)
    /\ [][BufferNeverOverwritten]_vars

C1_Witness ==
    /\ pc = "done"
    /\ nlevels = 3
    /\ Cardinality(Reads) = 3
    /\ layers[model[2]].op = "Activation_softmax"

\* ---------------------------------------------------------------------- C4
\* the tensor x a decoder level starts from: the output of the transition
\* before it (the last down-transition for the deepest level, the
\* up-transition of level f+1 for the others)
RECURSIVE SetMax(_)
SetMax(S) ==
    LET e == CHOOSE e \in S : TRUE
    IN  IF S = {e} THEN e
        ELSE LET m == SetMax(S \ {e}) IN IF e > m THEN e ELSE m

LevelInput(f) ==
    IF f = nlevels - 1
    THEN SetMax({i \in AtSite({116, 118}) : layers[i].lvl = f})
    ELSE SetMax({i \in AtSite({145, 147}) : layers[i].lvl = f + 1})

\* C4: the deepest decoder level (fi = nlevels-1) convolves x itself, with
\* no concatenation; every shallower level concatenates exactly one
\* forwarded tensor, buffer entry fi+1, with x (in that order) and convolves
\* the result; the shortcut of the level's sum is x as it was before the
\* concatenation.
C4_DecoderSkips ==
    /\ \A i \in AtSite({134}) :
          LET f == layers[i].lvl
              t == layers[i].inp[1]
              cats == {c \in AtSite({131}) : layers[c].lvl = f}
          IN  IF f = nlevels - 1
              THEN cats = {} /\ t = LevelInput(f)
              ELSE /\ cats = {t}
                   /\ layers[t].op = "Concatenate"
                   /\ layers[t].inp = <<FL(f + 1), LevelInput(f)>>
    /\ pc \in {"dec_more", "dec_add"} => shortcut = LevelInput(fi)
    /\ \A j \in AtSite({140}) :
          /\ layers[j].inp[2] = LevelInput(layers[j].lvl)
          /\ layers[layers[j].inp[1]].site \in {135, 138}

C4_Witness ==
    /\ pc = "done"
    /\ nlevels = 3
    /\ Cardinality(AtSite({131})) = 2
    /\ Cardinality(AtSite({140})) = 3

\* ---------------------------------------------------------------------- C5
\* the transitions: the strided convolutions of lines 114 and 143, each
\* followed by the layers of its NonLinearity call
Transitions == AtSite({114, 143})
TransitionBlock(i) ==
    {j \in AtSite({116, 118, 145, 147}) :
        /\ layers[j].lvl = layers[i].lvl
        /\ (layers[i].site = 114) = (layers[j].site \in {116, 118})}
HasDropout(i) ==
    \E j \in TransitionBlock(i) :
        layers[j].op = "Dropout" /\ layers[j].arg = <<dropout_out>>

\* C5 as stated: the condition abs(fi - nlevels) < nlevels is true at every
\* level 0..nlevels-1, so with a positive dropout_out every transition has
\* dropout at rate dropout_out.
C5_Original ==
    (ValidConfig /\ dropout_out > 0) =>
        \A i \in Transitions :
            DropoutCondition(layers[i].lvl) /\ HasDropout(i)

\* C5 amended: the condition is true exactly at the levels 1..nlevels-1 and
\* false at level 0 (abs(0 - nlevels) = nlevels); with a positive
\* dropout_out the transitions of the levels 1..nlevels-1 have dropout at
\* rate dropout_out and the two transitions of level 0 have none; without a
\* positive dropout_out no transition has dropout.
C5_DropoutLevels ==
    /\ \A f \in 0..(nlevels - 1) : DropoutCondition(f) <=> f >= 1
    /\ \A i \in Transitions :
          /\ HasDropout(i) <=> (dropout_out > 0 /\ layers[i].lvl >= 1)
          /\ \A j \in TransitionBlock(i) :
                /\ layers[j].site \in {116, 145} <=> layers[i].lvl >= 1
                /\ layers[j].op = "Dropout" => HasDropout(i)

C5_Witness ==
    /\ pc = "done"
    /\ nlevels = 3
    /\ dropout_out > 0
    /\ \E i \in Transitions : layers[i].lvl = 0 /\ ~HasDropout(i)
    /\ \E i \in Transitions : layers[i].lvl = 2 /\ HasDropout(i)

\* ---------------------------------------------------------------------- C8
BatchNorms == OfOp("BatchNormalization")

\* the additional convolution i (line 103 or 137) is the last of its block
IsLastMore(i) ==
    /\ layers[i].site \in {103, 137}
    /\ Cardinality({c \in AtSite({layers[i].site}) :
                       layers[c].lvl = layers[i].lvl /\ c <= i}) = nconv - 1

\* C8 as stated: batch normalization occurs only after the last additional
\* convolution of a residual block and only when batch_norm is true; in
\* particular never in the nonlinearity block of a transition.
C8_Original ==
    ValidConfig =>
        \A b \in BatchNorms :
            /\ batch_norm
            /\ layers[b].site \in {104, 138}
            /\ IsLastMore(layers[b].inp[1])

\* C8 amended: batch normalization occurs only when batch_norm is true, and
\* then at exactly two kinds of place: after the last of the nconv-1
\* additional convolutions of a residual block, and in the nonlinearity block
\* of every down- and up-transition (whose NonLinearity call leaves
\* batch_norm at its default, the flag); never after the first convolution
\* of a residual block, at the level-0 stage or in the fusion/head stage.
C8_BatchNormPlaces ==
    /\ \A b \in BatchNorms :
          /\ batch_norm
          /\ \/ layers[b].site \in {104, 138} /\ IsLastMore(layers[b].inp[1])
             \/ layers[b].site \in {116, 118, 145, 147}
                   /\ layers[b].inp[1] \in Transitions
    /\ batch_norm =>
          /\ \A i \in Transitions :
                \E b \in BatchNorms : layers[b].inp = <<i>>
          /\ \A i \in AtSite({103, 137}) :
                IsLastMore(i) => \E b \in BatchNorms : layers[b].inp = <<i>>

C8_Witness ==
    /\ pc = "done"
    /\ batch_norm
    /\ nconv = 3
    /\ nlevels >= 2
    /\ \E b \in BatchNorms : layers[b].site = 104
    /\ \E b \in BatchNorms : layers[b].site = 138
    /\ \E b \in BatchNorms : layers[b].site = 118
    /\ \E b \in BatchNorms : layers[b].site = 145

\* --------------------------------------------------------------------- C10
FusionIds == {i \in Ids : layers[i].site >= 151}

\* C10 as stated: the residual branch of the fusion stage is a convolution
\* followed by a nonlinearity block, so that the stage and the head hold
\* three nonlinearity blocks.
C10_Original ==
    (ValidConfig /\ pc = "done") =>
        /\ Cardinality({i \in FusionIds : IsActivation(i)}) = 3
        /\ \A a \in AtSite({154}) : IsActivation(layers[a].inp[1])

\* C10 amended: the fusion/head stage is, in order: the concatenation of
\* buffer entry 0 with x; a residual branch that is one 5x5x5 convolution to
\* nfm channels and nothing else (no nonlinearity block); a shortcut branch
\* that is one 1x1x1 convolution to nfm channels on the same concatenated
\* tensor; their sum; a nonlinearity block (no dropout, no batch norm); a
\* 1x1x1 convolution to 2 channels; a nonlinearity block (no dropout, no
\* batch norm); a softmax: exactly two nonlinearity blocks, both after the
\* sum.
C10_FusionHead ==
    AfterFusion =>
        LET b == Len(layers) - (IF pc = "head" THEN 4 ELSE 7)
            L(k) == layers[b + k]
            act == IF lrelu_alpha # <<>> THEN "LeakyReLU" ELSE "PReLU"
        IN  /\ FusionIds = (b..Len(layers))
            /\ L(0).op = "Concatenate" /\ L(0).site = 151
            /\ L(0).inp[1] = FL(0)
            /\ L(1).op = "Conv3D" /\ L(1).inp = <<b>>
            /\ L(1).arg = <<conv_kernel_size, 1>> /\ L(1).shape[4] = nfm
            /\ L(2).op = "Conv3D" /\ L(2).inp = <<b>>
            /\ L(2).arg = <<1, 1>> /\ L(2).shape[4] = nfm
            /\ L(3).op = "Add" /\ L(3).inp = <<b + 1, b + 2>>
            /\ L(4).op = act /\ L(4).inp = <<b + 3>>
            /\ pc # "head" =>
                  /\ L(5).op = "Conv3D" /\ L(5).inp = <<b + 4>>
                  /\ L(5).arg = <<1, 1>> /\ L(5).shape[4] = 2
                  /\ L(6).op = act /\ L(6).inp = <<b + 5>>
                  /\ L(7).op = "Activation_softmax" /\ L(7).inp = <<b + 6>>
                  /\ Cardinality({i \in FusionIds : IsActivation(i)}) = 2

C10_Witness ==
    /\ pc = "done"
    /\ dropout_in > 0
    /\ batch_norm
    /\ Cardinality(FusionIds) = 8

\* ---------------------------------------------------------------------- C3
\* the level-0 sum accepts the input: its channel count equals nfm, or one
\* of the two is 1 and is broadcast
InputChannelsAccepted ==
    input_shape[4] = nfm \/ input_shape[4] = 1 \/ nfm = 1

\* C3: the model get_model returns maps the input placeholder to a tensor
\* with exactly 2 channels and the spatial dimensions of input_shape, made
\* by a softmax; and a call with nlevels >= 1, spatial dimensions divisible
\* by 2^nlevels and input channels the level-0 sum accepts does not fail.
C3_Output ==
    /\ pc = "done" =>
          /\ model = <<input_state, Len(layers)>>
          /\ layers[model[1]].op = "Input"
          /\ layers[model[2]].op = "Activation_softmax"
          /\ layers[model[2]].shape =
                <<input_shape[1], input_shape[2], input_shape[3], 2>>
    /\ (nlevels >= 1 /\ Divisible /\ InputChannelsAccepted) => pc # "failed"

C3_Witness ==
    /\ pc = "done"
    /\ nlevels = 1
    /\ input_shape[1] = 4
    /\ input_shape[2] = 2
    /\ layers[model[2]].shape[4] = 2

\* ---------------------------------------------------------------------- C6
RECURSIVE DownSize(_, _)
DownSize(d, n) ==
    IF n = 0 THEN d
    ELSE ConvOutputLength(DownSize(d, n - 1), updown_kernel_size, updown_stride)

RECURSIVE UpSize(_, _)
UpSize(d, n) ==
    IF n = 0 THEN d
    ELSE DeconvLength(UpSize(d, n - 1), updown_kernel_size, updown_stride)

\* the two operands of the concatenation that reads buffer entry k, along an
\* axis of input size d: the entry, made after k down convolutions, and x,
\* made after nlevels down and nlevels-k transposed convolutions
ConcatSizesAgree(d) ==
    \A k \in 0..(nlevels - 1) :
        DownSize(d, k) = UpSize(DownSize(d, nlevels), nlevels - k)

\* C6: for nlevels >= 1, along every spatial axis the operands of all the
\* concatenations have equal sizes if and only if the input size is
\* divisible by 2^nlevels; a call whose spatial sizes are all divisible never
\* fails at a concatenation or a down convolution, every concatenation made
\* has operands of equal spatial size, and a call with a size that is not
\* divisible never gets past the fusion concatenation: it fails.
C6_Divisibility ==
    nlevels >= 1 =>
        /\ \A i \in 1..3 :
              ConcatSizesAgree(input_shape[i])
                  <=> input_shape[i] % Pow2(nlevels) = 0
        /\ \A c \in Reads :
              \A i \in 1..3 : InShape(c, 1)[i] = InShape(c, 2)[i]
        /\ Divisible =>
              error \notin {"Concatenate@131", "Concatenate@151", "Conv3D@114"}
        /\ ~Divisible => ~AfterFusion
        /\ error \in {"Concatenate@131", "Concatenate@151"} =>
              \E i \in 1..3 : ~ConcatSizesAgree(input_shape[i])

C6_Witness ==
    /\ pc = "failed"
    /\ error = "Concatenate@131"
    /\ nlevels = 2
    /\ input_shape[1] = 6

\* ---------------------------------------------------------------------- C9
Adds == OfOp("Add")

\* C9 as stated: the two operands of every addition have the same shape
\* (stated here for the single-channel inputs the training script builds the
\* model for, a case of the claim's "every valid configuration").
C9_Original ==
    (ValidConfig /\ input_shape[4] = 1) =>
        \A a \in Adds : InShape(a, 1) = InShape(a, 2)

\* C9 amended: the operands of every addition but the one of encoder level
\* 0 have identical shapes (encoder levels fi >= 1, the decoder levels, the
\* fusion stage), and no such addition fails.  At encoder level 0 the
\* residual has nfm channels and the shortcut, the raw input, has the input's
\* C channels, with equal spatial sizes: the shapes are identical only when
\* C = nfm; when C or nfm is 1 the sum is made by broadcasting the channel
\* axis; otherwise the addition fails.
C9_AddShapes ==
    /\ \A a \in Adds :
          IF layers[a].site = 108 /\ layers[a].lvl = 0
          THEN /\ SubSeq(InShape(a, 1), 1, 3) = SubSeq(InShape(a, 2), 1, 3)
               /\ InShape(a, 1)[4] = nfm
               /\ InShape(a, 2)[4] = input_shape[4]
               /\ InputChannelsAccepted
          ELSE InShape(a, 1) = InShape(a, 2)
    /\ error # "add@140"
    /\ error = "add@108" <=>
          (pc = "failed" /\ nlevels >= 1 /\ ~InputChannelsAccepted)

C9_Witness ==
    /\ pc = "done"
    /\ nlevels = 2
    /\ input_shape[4] = 1
    /\ nfm = 2
    /\ \E a \in Adds : layers[a].site = 108 /\ layers[a].lvl = 0
                          /\ InShape(a, 1) # InShape(a, 2)

\* ---------------------------------------------------------------------- C2
\* C2: at every encoder level fi the tensor entering the down convolution
\* has nfm*2^fi channels and the tensor leaving it nfm*2^(fi+1); at every
\* decoder level the tensor entering the transposed convolution has
\* nfm*2^(fi+1) channels and the tensor leaving it nfm*2^fi, so that the
\* decoder loop exits with nfm channels.
C2_Channels ==
    ValidConfig =>
        /\ \A i \in AtSite({114}) :
              /\ InShape(i, 1)[4] = nfm * Pow2(layers[i].lvl)
              /\ layers[i].shape[4] = nfm * Pow2(layers[i].lvl + 1)
        /\ \A i \in AtSite({143}) :
              /\ InShape(i, 1)[4] = nfm * Pow2(layers[i].lvl + 1)
              /\ layers[i].shape[4] = nfm * Pow2(layers[i].lvl)
        /\ pc = "fusion" => layers[x].shape[4] = nfm

\* ---------------------------------------------------------------------- C7
\* C7: a call with a non-positive nlevels, nfm or nconv fails and returns no
\* model: it never completes with an assembled graph.
C7_InvalidFails ==
    (nlevels <= 0 \/ nfm <= 0 \/ nconv <= 0) =>
        /\ pc # "done"
        /\ model = <<>>

====
